---- MODULE Spec2Model ----
(***************************************************************************)
(* A model of task1.py: an asynchronous file sorter.  main validates the   *)
(* two paths, read_folder walks the source tree and builds one copy_file   *)
(* coroutine per file, asyncio.gather runs them all, each one doing a      *)
(* mkdir and a shutil.copy2 in a worker thread.                             *)
(*                                                                         *)
(* A file name is a sequence of fragments: "." is the dot, every other     *)
(* fragment is a non-empty run of characters without a dot.  A path is a   *)
(* sequence of names.  File contents are sequences of bytes.               *)
(***************************************************************************)
EXTENDS Naturals, Integers, Sequences, FiniteSets, TLC

VARIABLES
    fs,          \* the filesystem: path -> [kind, data], defined on the paths that exist
    output_dir,  \* args.output_dir
    pc,          \* position of the driver (main / read_folder)
    tasks,       \* the work list: source_path -> state of its copy_file coroutine
    log,         \* the log lines emitted so far: <<kind, path>>
    interrupted, \* a KeyboardInterrupt was delivered
    fault,       \* some filesystem operation failed for an environmental reason
    again,       \* this is the second invocation of the tool, on what the first one left
    walked,      \* the directories os.walk has yielded so far in this run
    fs0,         \* the filesystem before the first invocation
    tree1,       \* the filesystem as the first invocation left it
    probe,       \* arguments of a single copy_file call (path computation only)
    result       \* what that call computed

vars == <<fs, output_dir, pc, tasks, log, interrupted, fault, again, walked, fs0, tree1, probe, result>>

---------------------------------------------------------------------------
(* Bounds *)

MaxNameLen == 5
MaxFiles == 2

---------------------------------------------------------------------------
(* Names and str.upper() *)

Alphabet == {"a", "t", "T", ".", "no_extension"}

upper_char(c) ==
    CASE c = "a" -> "A"
      [] c = "t" -> "T"
      [] c = "no_extension" -> "NO_EXTENSION"
      [] OTHER -> c

upper(s) == [i \in 1..Len(s) |-> upper_char(s[i])]

NO_EXTENSION_DIR == <<"NO_EXTENSION">>

\* str.rfind("."), 1-based: the position of the last dot, 0 when there is none
rfind_dot(s) ==
    IF \E i \in 1..Len(s) : s[i] = "."
    THEN CHOOSE i \in 1..Len(s) : s[i] = "." /\ \A j \in (i+1)..Len(s) : s[j] # "."
    ELSE 0

\* A plausible slip: everything from the last dot on, wherever the dot is
suffix_AnyDot(file_name) ==
    LET i == rfind_dot(file_name)
    IN  IF i > 0 THEN SubSeq(file_name, i, Len(file_name)) ELSE <<>>

\* PurePath.suffix: the last dot counts only when it is neither the first nor
\* the last character of the name (0 < i < len(name) - 1, 0-based)
suffix(file_name) ==
    LET i == rfind_dot(file_name)
    IN  IF 1 < i /\ i < Len(file_name)
        THEN SubSeq(file_name, i, Len(file_name))
        ELSE <<>>

\* Path.name: the last component of a path
name(path) == path[Len(path)]

\* A plausible slip: the extension is used as found, not uppercased
extension_NoUpper(source_path) ==
    IF suffix(name(source_path)) # <<>>
    THEN Tail(suffix(name(source_path)))
    ELSE NO_EXTENSION_DIR

\* copy_file, lines 16-19
extension(source_path) ==
    IF suffix(name(source_path)) # <<>>
    THEN upper(Tail(suffix(name(source_path))))
    ELSE NO_EXTENSION_DIR

\* A plausible slip: the bucket is made beside the source file, not under the
\* output directory
target_dir_BesideSource(source_path, out) ==
    Append(SubSeq(source_path, 1, Len(source_path) - 1), extension(source_path))

\* copy_file, line 21
target_dir(source_path, out) == Append(out, extension(source_path))

\* A plausible slip: a destination that exists already is not overwritten, the
\* copy goes to a new name beside it
target_path_Rename(source_path, out) ==
    IF Append(target_dir(source_path, out), name(source_path)) \in DOMAIN fs
    THEN Append(target_dir(source_path, out), Append(name(source_path), "1"))
    ELSE Append(target_dir(source_path, out), name(source_path))

\* copy_file, line 22
target_path(source_path, out) == Append(target_dir(source_path, out), name(source_path))

---------------------------------------------------------------------------
(* The filesystem *)

source_dir == << <<"src">> >>          \* args.source_dir
SubDir == Append(source_dir, <<"d">>)  \* a subdirectory of the source
OutSeparate == << <<"out">> >>         \* an output directory outside the source
OutputDirs == {OutSeparate, source_dir, SubDir}

Contents == {<<1, 1>>, <<2>>}

Dir == [kind |-> "dir", data |-> <<>>]
File(c) == [kind |-> "file", data |-> c]
NoFs == [p \in {} |-> Dir]

IsPrefix(p, q) == Len(p) <= Len(q) /\ SubSeq(q, 1, Len(p)) = p
Prefixes(p) == {SubSeq(p, 1, k) : k \in 1..Len(p)}

\* A plausible slip: Path.exists() where Path.is_dir() is meant
is_dir_Exists(f, p) == p \in DOMAIN f

\* Path.is_dir(): follows symbolic links, False for a missing path
is_dir(f, p) == p \in DOMAIN f /\ f[p].kind \in {"dir", "symlink_dir"}

\* A plausible slip: exist_ok is left out, and mkdir raises on a directory
\* that is already there
mkdir_raises_ExistNotOk(f, p) ==
    \/ p \in DOMAIN f
    \/ \E q \in Prefixes(p) : q \in DOMAIN f /\ ~is_dir(f, q)

\* Path.mkdir(parents=True, exist_ok=True) raises when the path, or one of
\* its parents, exists and is not a directory
mkdir_raises(f, p) == \E q \in Prefixes(p) : q \in DOMAIN f /\ ~is_dir(f, q)

\* ... and otherwise creates the missing directories and keeps the others
mkdir(f, p) == [q \in Prefixes(p) \ DOMAIN f |-> Dir] @@ f

\* A plausible slip: os.listdir where os.walk is meant (top level only)
walk_TopOnly(f, top) ==
    IF ~is_dir(f, top) THEN {}
    ELSE {p \in DOMAIN f : Len(p) = Len(top) + 1 /\ IsPrefix(top, p)
                           /\ ~is_dir(f, p)}

\* os.walk(top): the paths of the `files` lists, at every level.  `files`
\* holds every entry that is not a directory (symbolic links to files
\* included); a symbolic link to a directory is listed in `dirs` but not
\* entered (followlinks=False); errors of scandir are ignored.
walk(f, top) ==
    IF ~is_dir(f, top) THEN {}
    ELSE {p \in DOMAIN f :
            /\ IsPrefix(top, p) /\ p # top
            /\ ~is_dir(f, p)
            /\ \A k \in (Len(top) + 1)..(Len(p) - 1) : f[SubSeq(p, 1, k)].kind = "dir"}

\* Path.parent
parent(path) == SubSeq(path, 1, Len(path) - 1)

\* os.walk(top): the directories it yields, the top and every directory below
\* it that is reached through directories that are not symbolic links
walk_dirs(f, top) ==
    IF ~is_dir(f, top) THEN {}
    ELSE {top} \cup {p \in DOMAIN f :
            /\ IsPrefix(top, p) /\ p # top
            /\ \A k \in (Len(top) + 1)..Len(p) : f[SubSeq(p, 1, k)].kind = "dir"}

\* open(dst, "wb"): the file is created or truncated
open_wb(f, dst) == (dst :> File(<<>>)) @@ f

\* A plausible slip: the destination is opened for appending
write_Append(new, old) == old \o new

\* writing `new` from offset 0 into a file that holds `old`
write(new, old) == new \o SubSeq(old, Len(new) + 1, Len(old))

---------------------------------------------------------------------------
(* Initial states *)

RunNames == {<<"a", ".", "t">>, <<"a", ".", "T">>, <<"a">>}
SubNames == {<<"a", ".", "t">>}
Positions == {Append(source_dir, n) : n \in RunNames} \cup {Append(SubDir, n) : n \in SubNames}
FileEntries == {File(c) : c \in Contents} \cup {[kind |-> "symlink_file", data |-> <<1, 1>>]}

\* the trees of a source directory with at most MaxFiles files
SourceTrees ==
    UNION { UNION { { (source_dir :> Dir) @@ files @@ sub :
                        sub \in IF \E p \in P : IsPrefix(SubDir, p)
                                THEN {(SubDir :> Dir), (SubDir :> [kind |-> "symlink_dir", data |-> <<>>])}
                                ELSE {NoFs, (SubDir :> Dir)} } :
                    files \in [P -> FileEntries] } :
            P \in {Q \in SUBSET Positions : Cardinality(Q) <= MaxFiles} }

\* the source path names a regular file, or nothing
InvalidSources == {(source_dir :> File(<<2>>)), NoFs}

\* the output directory may exist already
WithOutput(f, out) == IF out = OutSeparate THEN {f, (OutSeparate :> Dir) @@ f} ELSE {f}

NoProbe == [source_path |-> <<>>, out |-> <<>>, data |-> <<>>]
NoResult == [target_dir |-> <<>>, target_path |-> <<>>]

InitRun(trees) ==
    /\ output_dir \in OutputDirs
    /\ fs \in UNION {WithOutput(f, output_dir) : f \in trees}
    /\ pc = "main"
    /\ tasks = [p \in {} |-> 0]
    /\ log = {}
    /\ interrupted = FALSE
    /\ fault = FALSE
    /\ again = FALSE
    /\ walked = {}
    /\ fs0 = fs
    /\ tree1 = NoFs
    /\ probe = NoProbe
    /\ result = NoResult

Init == InitRun(SourceTrees \cup InvalidSources)

\* the source trees that hold no symbolic link
RegularTrees == {f \in SourceTrees : \A p \in DOMAIN f : f[p].kind \in {"dir", "file"}}

\* the runs on the trees without symbolic links
InitRegular == InitRun(RegularTrees \cup InvalidSources)

---------------------------------------------------------------------------
(* The run: main, read_folder, copy_file *)

Line(level, msg, path) == <<level, msg, path>>

\* a copy_file coroutine as read_folder creates it (line 47): not started
NewTask == [pc |-> "mkdir", dir |-> <<>>, dst |-> <<>>, mkdirs |-> 0, copies |-> 0]

Resolved == {"copied", "mkdir_error", "copy_error"}

\* A plausible slip: `if not tasks` is dropped
no_tasks_Never(t) == FALSE

\* read_folder, line 52
no_tasks(t) == DOMAIN t = {}

\* A plausible slip: asyncio.wait(..., return_when=FIRST_COMPLETED)
gather_done_First(t) == \E p \in DOMAIN t : t[p].pc \in Resolved

\* A plausible slip: the driver waits until every file has been copied
gather_done_AllCopied(t) == \A p \in DOMAIN t : t[p].pc = "copied"

\* asyncio.gather returns when every coroutine has returned (line 58)
gather_done(t) == \A p \in DOMAIN t : t[p].pc \in Resolved

\* A plausible slip: the handler re-raises, the error leaves gather and ends the run
copy_file_except_Raise(driver) == "done"

\* copy_file, lines 26-28 and 33-34: the error is logged and swallowed, the
\* driver stays where it is
copy_file_except(driver) == driver

\* A plausible slip: the `return` of line 28 is missing
on_mkdir_error_NoReturn == "copy_open"

\* copy_file, lines 26-28: the error is logged and copy_file returns
on_mkdir_error == "mkdir_error"

\* A plausible slip: a failed copy is tried again
on_copy_error_Retry == "copy_open"

\* copy_file, lines 33-34: the error is logged and copy_file ends
on_copy_error == "copy_error"

\* A plausible slip: the walk error is logged and read_folder goes on
on_scan_error_NoReturn == "scanned"

\* read_folder, lines 48-50: the error is logged and read_folder returns
on_scan_error == "done"

\* A plausible slip: the interrupt does not reach the awaited gather
on_KeyboardInterrupt_Shielded == "gather"

\* asyncio.run on SIGINT: the main task is cancelled at its await
on_KeyboardInterrupt == "cancelling"

\* A plausible slip: each coroutine is started and awaited inside the scan loop
running_Streaming(driver) == driver \in {"read_folder", "gather", "cancelling"}

\* a coroutine object runs only once gather has scheduled it (line 58)
running(driver) == driver \in {"gather", "cancelling"}

\* once the run is being cancelled a coroutine never resumes after its thread returns
after(driver, next) == IF driver = "cancelling" THEN "cancelled" ELSE next

\* shutil.copy2 raises before it opens the destination: the source is gone
\* or is the destination itself (SameFileError)
copy_raises(f, src, dst) == src \notin DOMAIN f \/ is_dir(f, src) \/ src = dst

\* main, lines 82-86
main_is_dir ==
    /\ pc = "main"
    /\ IF ~is_dir(fs, source_dir)
       THEN /\ log' = log \cup {Line("ERROR", "Source directory not found or is not a directory", source_dir)}
            /\ pc' = "done"
       ELSE /\ pc' = "mkdir_output"
            /\ log' = log
    /\ UNCHANGED <<fs, output_dir, tasks, interrupted, fault, again, walked, fs0, tree1, probe, result>>

\* main, lines 88-92
main_mkdir ==
    /\ pc = "mkdir_output"
    /\ \/ /\ ~mkdir_raises(fs, output_dir)
          /\ fs' = mkdir(fs, output_dir)
          /\ pc' = "read_folder"
          /\ UNCHANGED <<log, fault>>
       \/ /\ \E env \in BOOLEAN :
                /\ env \/ mkdir_raises(fs, output_dir)
                /\ fault' = (fault \/ env)
          /\ log' = log \cup {Line("ERROR", "Failed to create output directory", output_dir)}
          /\ pc' = "done"
          /\ fs' = fs
    /\ UNCHANGED <<output_dir, tasks, interrupted, again, walked, fs0, tree1, probe, result>>

\* read_folder, lines 38-47: one turn of the loop over os.walk, which yields a
\* directory after its parent; a coroutine object is made for each of its
\* files and is not started
read_folder_walk(d) ==
    /\ pc = "read_folder"
    /\ d \in walk_dirs(fs, source_dir) \ walked
    /\ d = source_dir \/ parent(d) \in walked
    /\ walked' = walked \cup {d}
    /\ tasks' = [p \in DOMAIN tasks \cup {q \in walk(fs, source_dir) : parent(q) = d} |-> NewTask]
    /\ log' = log \cup {Line("INFO", "Starting scan of source directory", source_dir)}
    /\ UNCHANGED <<fs, output_dir, pc, interrupted, fault, again, fs0, tree1, probe, result>>

\* read_folder, lines 52-56: the walk is exhausted
read_folder ==
    /\ \/ pc = "read_folder" /\ walk_dirs(fs, source_dir) \subseteq walked
       \/ pc = "scanned"
    /\ IF no_tasks(tasks)
       THEN /\ log' = log \cup {Line("INFO", "Starting scan of source directory", source_dir),
                                Line("WARNING", "No files found in the source directory", <<>>)}
            /\ pc' = "done"
       ELSE /\ log' = log \cup {Line("INFO", "Starting scan of source directory", source_dir),
                                Line("INFO", "Found files. Starting asynchronous copying", <<>>)}
            /\ pc' = "gather"
    /\ UNCHANGED <<fs, output_dir, tasks, interrupted, fault, again, walked, fs0, tree1, probe, result>>

\* read_folder, lines 48-50: the walk raises at some turn of the loop; the
\* coroutine objects made so far are dropped with the list, never started
read_folder_except ==
    /\ pc = "read_folder"
    /\ log' = log \cup {Line("INFO", "Starting scan of source directory", source_dir),
                        Line("ERROR", "Error while scanning directory", source_dir)}
    /\ pc' = on_scan_error
    /\ tasks' = IF pc' = "done" THEN [p \in {} |-> 0] ELSE tasks
    /\ fault' = TRUE
    /\ UNCHANGED <<fs, output_dir, interrupted, again, walked, fs0, tree1, probe, result>>

\* copy_file, lines 16-28
copy_file_mkdir(p) ==
    /\ running(pc)
    /\ tasks[p].pc = "mkdir"
    /\ LET d == target_dir(p, output_dir)
           t == [tasks[p] EXCEPT !.dir = d, !.dst = target_path(p, output_dir), !.mkdirs = @ + 1]
       IN  \/ /\ ~mkdir_raises(fs, d)
              /\ fs' = mkdir(fs, d)
              /\ tasks' = [tasks EXCEPT ![p] = [t EXCEPT !.pc = after(pc, "copy_open")]]
              /\ UNCHANGED <<log, fault, pc>>
           \/ /\ \E env \in BOOLEAN :
                    /\ env \/ mkdir_raises(fs, d)
                    /\ fault' = (fault \/ env)
              /\ tasks' = [tasks EXCEPT ![p] = [t EXCEPT !.pc = after(pc, on_mkdir_error)]]
              /\ log' = IF pc = "gather"
                        THEN log \cup {Line("ERROR", "Failed to create target directory", d)}
                        ELSE log
              /\ pc' = copy_file_except(pc)
              /\ fs' = fs
    /\ UNCHANGED <<output_dir, interrupted, again, walked, fs0, tree1, probe, result>>

\* copy_file, lines 30-34, shutil.copy2 up to the opening of the destination
copy_file_open(p) ==
    /\ running(pc)
    /\ tasks[p].pc = "copy_open"
    /\ LET t == [tasks[p] EXCEPT !.copies = @ + 1]
           announced == log \cup {Line("INFO", "Copying", p)}
       IN  \/ /\ ~copy_raises(fs, p, t.dst)
              /\ fs' = open_wb(fs, t.dst)
              /\ tasks' = [tasks EXCEPT ![p] = [t EXCEPT !.pc = "copy_write"]]
              /\ log' = announced
              /\ UNCHANGED <<fault, pc>>
           \/ /\ \E env \in BOOLEAN :
                    /\ env \/ copy_raises(fs, p, t.dst)
                    /\ fault' = (fault \/ env)
              /\ tasks' = [tasks EXCEPT ![p] = [t EXCEPT !.pc = after(pc, on_copy_error)]]
              /\ log' = IF pc = "gather"
                        THEN announced \cup {Line("ERROR", "Error copying file", p)}
                        ELSE announced
              /\ pc' = copy_file_except(pc)
              /\ fs' = fs
    /\ UNCHANGED <<output_dir, interrupted, again, walked, fs0, tree1, probe, result>>

\* shutil.copy2, the transfer of the bytes into the opened destination
copy_file_write(p) ==
    /\ running(pc)
    /\ tasks[p].pc = "copy_write"
    /\ LET dst == tasks[p].dst
       IN  \/ /\ fs' = [fs EXCEPT ![dst] = File(write(fs[p].data, fs[dst].data))]
              /\ tasks' = [tasks EXCEPT ![p].pc = after(pc, "copied")]
              /\ UNCHANGED <<log, fault, pc>>
           \/ /\ fault' = TRUE
              /\ tasks' = [tasks EXCEPT ![p].pc = after(pc, on_copy_error)]
              /\ log' = IF pc = "gather"
                        THEN log \cup {Line("ERROR", "Error copying file", p)}
                        ELSE log
              /\ pc' = copy_file_except(pc)
              /\ fs' = fs
    /\ UNCHANGED <<output_dir, interrupted, again, walked, fs0, tree1, probe, result>>

\* read_folder, lines 58-60
gather ==
    /\ pc = "gather"
    /\ gather_done(tasks)
    /\ log' = log \cup {Line("INFO", "All files processed. Sorting complete!", <<>>)}
    /\ pc' = "done"
    /\ UNCHANGED <<fs, output_dir, tasks, interrupted, fault, again, walked, fs0, tree1, probe, result>>

\* a KeyboardInterrupt is delivered while gather is awaited: asyncio.run
\* cancels the main task and with it every coroutine
KeyboardInterrupt ==
    /\ pc = "gather"
    /\ interrupted' = TRUE
    /\ pc' = on_KeyboardInterrupt
    /\ UNCHANGED <<fs, output_dir, tasks, log, fault, again, walked, fs0, tree1, probe, result>>

\* a cancelled coroutine whose thread call had not started never runs it
cancel(p) ==
    /\ pc = "cancelling"
    /\ tasks[p].pc \in {"mkdir", "copy_open"}
    /\ tasks' = [tasks EXCEPT ![p].pc = "cancelled"]
    /\ UNCHANGED <<fs, output_dir, pc, log, interrupted, fault, again, walked, fs0, tree1, probe, result>>

\* main, lines 96-97: asyncio.run has joined the worker threads and raises
main_except_KeyboardInterrupt ==
    /\ pc = "cancelling"
    /\ \A p \in DOMAIN tasks : tasks[p].pc \in Resolved \cup {"cancelled"}
    /\ log' = log \cup {Line("WARNING", "Operation interrupted by the user", <<>>)}
    /\ pc' = "done"
    /\ UNCHANGED <<fs, output_dir, tasks, interrupted, fault, again, walked, fs0, tree1, probe, result>>

copy_file(p) ==
    \/ copy_file_mkdir(p)
    \/ copy_file_open(p)
    \/ copy_file_write(p)
    \/ cancel(p)

Next ==
    \/ main_is_dir
    \/ main_mkdir
    \/ \E d \in walk_dirs(fs, source_dir) : read_folder_walk(d)
    \/ read_folder
    \/ read_folder_except
    \/ \E p \in DOMAIN tasks : copy_file(p)
    \/ gather
    \/ KeyboardInterrupt
    \/ main_except_KeyboardInterrupt

Spec == Init /\ [][Next]_vars

\* every filesystem call returns and every coroutine and the driver are
\* scheduled; the interrupt is the user's and is never owed
Progress ==
    \/ main_is_dir
    \/ main_mkdir
    \/ \E d \in walk_dirs(fs, source_dir) : read_folder_walk(d)
    \/ read_folder
    \/ \E p \in DOMAIN tasks : copy_file(p)
    \/ gather
    \/ main_except_KeyboardInterrupt

LiveSpec == InitRegular /\ [][Next]_vars /\ WF_vars(Progress)

\* the tool is invoked a second time with the same two arguments, after a
\* first invocation in which no filesystem operation failed
main_again ==
    /\ pc = "done"
    /\ ~again
    /\ ~fault
    /\ again' = TRUE
    /\ tree1' = fs
    /\ pc' = "main"
    /\ tasks' = [p \in {} |-> 0]
    /\ log' = {}
    /\ walked' = {}
    /\ UNCHANGED <<fs, output_dir, interrupted, fault, fs0, probe, result>>

\* two invocations that the user lets run to their end; they are followed up
\* to the first filesystem operation that fails for an environmental reason
NextTwice ==
    \/ ~fault /\ main_is_dir
    \/ ~fault /\ main_mkdir
    \/ \E d \in walk_dirs(fs, source_dir) : ~fault /\ read_folder_walk(d)
    \/ ~fault /\ read_folder
    \/ ~fault /\ read_folder_except
    \/ \E p \in DOMAIN tasks : ~fault /\ copy_file_mkdir(p)
    \/ \E p \in DOMAIN tasks : ~fault /\ copy_file_open(p)
    \/ \E p \in DOMAIN tasks : ~fault /\ copy_file_write(p)
    \/ ~fault /\ gather
    \/ main_again

SpecTwice == InitRegular /\ [][NextTwice]_vars

---------------------------------------------------------------------------
(* One copy_file call, up to the paths it computes (lines 16-22) *)

Seqs(n) == UNION {[1..k -> Alphabet] : k \in 1..n}

\* file names: "." and ".." name directories, never files
Names == Seqs(MaxNameLen) \ {<<".">>, <<".", ".">>}

InitFn ==
    /\ probe \in [source_path : {Append(d, n) : d \in {source_dir, SubDir}, n \in Names},
                  out : OutputDirs,
                  data : Contents]
    /\ result = NoResult
    /\ fs = NoFs
    /\ output_dir = probe.out
    /\ pc = "copy_file"
    /\ tasks = [p \in {} |-> 0]
    /\ log = {}
    /\ interrupted = FALSE
    /\ fault = FALSE
    /\ again = FALSE
    /\ walked = {}
    /\ fs0 = fs
    /\ tree1 = NoFs

copy_file_paths ==
    /\ pc = "copy_file"
    /\ result = NoResult
    /\ result' = [target_dir |-> target_dir(probe.source_path, probe.out),
                  target_path |-> target_path(probe.source_path, probe.out)]
    /\ UNCHANGED <<fs, output_dir, pc, tasks, log, interrupted, fault, again, walked, fs0, tree1, probe>>

NextFn == copy_file_paths

SpecFn == InitFn /\ [][NextFn]_vars

---------------------------------------------------------------------------
(* C2 *)

HasDot(n) == \E i \in 1..Len(n) : n[i] = "."
IsLastDot(n, i) == i \in 1..Len(n) /\ n[i] = "." /\ \A j \in (i + 1)..Len(n) : n[j] # "."
AfterLastDot(n) == LET i == CHOOSE k \in 1..Len(n) : IsLastDot(n, k) IN SubSeq(n, i + 1, Len(n))
Uppercased(s) == [i \in 1..Len(s) |-> IF s[i] = "a" THEN "A" ELSE IF s[i] = "t" THEN "T"
                                      ELSE IF s[i] = "no_extension" THEN "NO_EXTENSION" ELSE s[i]]
LastDotInside(n) == \E i \in 2..(Len(n) - 1) : IsLastDot(n, i)

BucketAsClaimed(n) == IF HasDot(n) THEN Uppercased(AfterLastDot(n)) ELSE <<"NO_EXTENSION">>
BucketAmended(n) == IF LastDotInside(n) THEN Uppercased(AfterLastDot(n)) ELSE <<"NO_EXTENSION">>

\* C2 as stated: the bucket of every name that contains a "." is the uppercased
\* text after its last ".", and NO_EXTENSION for every other name
C2_AsStated ==
    result # NoResult =>
        result.target_dir = Append(probe.out, BucketAsClaimed(name(probe.source_path)))

\* C2 amended: the bucket is the uppercased text after the last "." of the name
\* when that "." is neither the first nor the last character of the name, and
\* NO_EXTENSION otherwise; it is a function of the name alone (not of the
\* content or of the directory the file was found in), and the destination is
\* <output>/<bucket>/<name>
C2_Bucket ==
    result # NoResult =>
        /\ result.target_dir = Append(probe.out, BucketAmended(name(probe.source_path)))
        /\ result.target_path = Append(result.target_dir, name(probe.source_path))

\* 'a.t.a' (the shape of archive.tar.gz) has gone to A, 'a' would go to NO_EXTENSION
C2_Witness ==
    /\ result # NoResult
    /\ name(probe.source_path) = <<"a", ".", "t", ".", "a">>
    /\ result.target_dir = Append(probe.out, <<"A">>)
    /\ probe.source_path[2] = <<"d">>

---------------------------------------------------------------------------
(* Vocabulary of the claims, in terms of the filesystem alone *)

Complete == Line("INFO", "All files processed. Sorting complete!", <<>>)
NoFilesWarning == Line("WARNING", "No files found in the source directory", <<>>)
SourceError == Line("ERROR", "Source directory not found or is not a directory", source_dir)
ScanStarted == Line("INFO", "Starting scan of source directory", source_dir)
ScanError == Line("ERROR", "Error while scanning directory", source_dir)
OutputError == Line("ERROR", "Failed to create output directory", output_dir)

SourceIsDirectory(f) == source_dir \in DOMAIN f /\ f[source_dir].kind = "dir"
Beneath(f) == {p \in DOMAIN f : Len(p) > Len(source_dir) /\ SubSeq(p, 1, Len(source_dir)) = source_dir}
Parent(p) == SubSeq(p, 1, Len(p) - 1)

\* the regular files beneath the source directory, under real directories
RegularFiles(f) == {p \in Beneath(f) : f[p].kind = "file" /\ f[Parent(p)].kind = "dir"}
\* the symbolic links to files beneath the source directory, under real directories
FileLinks(f) == {p \in Beneath(f) : f[p].kind = "symlink_file" /\ f[Parent(p)].kind = "dir"}
\* anything beneath the source directory that is not a directory, however reached
NonDirectories(f) == {p \in Beneath(f) : f[p].kind \in {"file", "symlink_file"}}

Destination(p) == Append(Append(output_dir, BucketAmended(p[Len(p)])), p[Len(p)])
\* another source file of the run has the same name, hence the same bucket
Collides(p) == \E q \in DOMAIN tasks : q # p /\ q[Len(q)] = p[Len(p)]
Holds(f, path, bytes) == path \in DOMAIN f /\ f[path].kind = "file" /\ f[path].data = bytes

---------------------------------------------------------------------------
(* C4 *)

\* C4: the line 'All files processed' is in the log only when every work item
\* of the run has resolved: its copy succeeded, its copy failed or its
\* directory creation failed; none is pending or in flight
C4_JoinBarrier ==
    Complete \in log =>
        \A p \in DOMAIN tasks : tasks[p].pc \in {"copied", "copy_error", "mkdir_error"}

\* the line was logged after two items, one copied and one failed
C4_Witness ==
    /\ Complete \in log
    /\ \E p, q \in DOMAIN tasks : tasks[p].pc = "copied" /\ tasks[q].pc = "copy_error"

---------------------------------------------------------------------------
(* C3 *)

\* C3: a failure of one work item stays in that item: no item is ever
\* cancelled or left unfinished because another one failed, and a run that was
\* not interrupted ends, whatever failed, with every item resolved, each one
\* having made its own single attempt at each step its own failures allowed,
\* with the completion line logged, and with every copied file that shares
\* its name with no other item in place with its content
C3_Isolation ==
    /\ \A p \in DOMAIN tasks : tasks[p].pc = "cancelled" => interrupted
    /\ (pc = "done" /\ DOMAIN tasks # {} /\ ~interrupted) =>
          /\ Complete \in log
          /\ \A p \in DOMAIN tasks :
                \/ /\ tasks[p].pc = "copied" /\ tasks[p].mkdirs = 1 /\ tasks[p].copies = 1
                   /\ Collides(p) \/ Holds(fs, Destination(p), fs0[p].data)
                \/ tasks[p].pc = "copy_error" /\ tasks[p].mkdirs = 1 /\ tasks[p].copies = 1
                \/ tasks[p].pc = "mkdir_error" /\ tasks[p].mkdirs = 1 /\ tasks[p].copies = 0

\* a run ended in which one item failed to create its directory and another
\* item, which did not collide with it, was copied in full
C3_Witness ==
    /\ pc = "done" /\ ~interrupted /\ Complete \in log
    /\ \E p, q \in DOMAIN tasks :
          /\ tasks[p].pc = "mkdir_error"
          /\ tasks[q].pc = "copied"
          /\ Holds(fs, Destination(q), fs0[q].data)

---------------------------------------------------------------------------
(* C1 *)

\* C1 as stated: once the run has logged its completion, every regular file
\* of the source tree that shares its name with no other source file is at
\* <output>/<bucket>/<name> with its content
C1_AsStated ==
    (SourceIsDirectory(fs0) /\ Complete \in log) =>
        \A p \in RegularFiles(fs0) :
            ~Collides(p) => Holds(fs, Destination(p), fs0[p].data)

\* C1 amended: once the run has logged its completion, every regular file of
\* the source tree is a work item, and each one whose directory creation and
\* copy both succeeded and which shares its name with no other work item is at
\* <output>/<bucket>/<name> with the content of the source file
C1_Copied ==
    (SourceIsDirectory(fs0) /\ Complete \in log) =>
        \A p \in RegularFiles(fs0) :
            /\ p \in DOMAIN tasks
            /\ (tasks[p].pc = "copied" /\ ~Collides(p)) =>
                  Holds(fs, Destination(p), fs0[p].data)

\* a run completed that copied a nested file with an extension and a
\* top-level file without one
C1_Witness ==
    /\ Complete \in log
    /\ \E p, q \in RegularFiles(fs0) :
          /\ Len(p) = Len(source_dir) + 2 /\ p[Len(p)] = <<"a", ".", "t">>
          /\ q[Len(q)] = <<"a">>
          /\ tasks[p].pc = "copied" /\ tasks[q].pc = "copied"
          /\ Holds(fs, Destination(p), fs0[p].data)
          /\ Holds(fs, Destination(q), fs0[q].data)

---------------------------------------------------------------------------
(* C5 *)

\* C5: when the source path is missing or is not a directory, the run logs
\* the error and ends at once: the output directory is not created, the scan
\* is not started, there is no work item, and the filesystem stays as it was
C5_InvalidSource ==
    ~SourceIsDirectory(fs0) =>
        /\ fs = fs0
        /\ pc \in {"main", "done"}
        /\ pc = "done" => SourceError \in log
        /\ ScanStarted \notin log
        /\ DOMAIN tasks = {}

\* the run has ended on a source path that names a regular file, and the
\* output directory is still missing
C5_Witness ==
    /\ pc = "done"
    /\ source_dir \in DOMAIN fs0 /\ fs0[source_dir].kind = "file"
    /\ output_dir \notin DOMAIN fs
    /\ SourceError \in log

---------------------------------------------------------------------------
(* C6 *)

\* C6: when two source files of the same name and different contents were
\* both copied, the destination holds all of one of them and nothing else
C6_OneOfTheTwo ==
    \A p, q \in DOMAIN tasks :
        (/\ Complete \in log
         /\ p # q /\ p[Len(p)] = q[Len(q)] /\ fs0[p].data # fs0[q].data
         /\ Destination(p) \notin {p, q}
         /\ tasks[p].pc = "copied" /\ tasks[q].pc = "copied")
        => fs[Destination(p)].data \in {fs0[p].data, fs0[q].data}

---------------------------------------------------------------------------
(* C8 *)

Found == Line("INFO", "Found files. Starting asynchronous copying", <<>>)
Scanned == Found \in log \/ NoFilesWarning \in log

\* C8 as stated: the work list is exactly the set of regular files beneath
\* the source directory; no symbolic link is a work item
C8_AsStated == Scanned => DOMAIN tasks = RegularFiles(fs0)

\* C8 amended: the work list is exactly the set of entries beneath the source
\* directory, at every nesting level, that are not directories: the regular
\* files and the symbolic links to files; a directory is never a work item,
\* and a symbolic link to a directory is neither a work item nor entered
C8_WorkList ==
    Scanned =>
        /\ DOMAIN tasks = RegularFiles(fs0) \cup FileLinks(fs0)
        /\ \A p \in DOMAIN tasks : fs0[p].kind \notin {"dir", "symlink_dir"}

\* the scan listed a nested regular file and a symbolic link to a file
C8_Witness ==
    /\ Scanned
    /\ \E p, q \in DOMAIN tasks :
          /\ Len(p) = Len(source_dir) + 2 /\ fs0[p].kind = "file"
          /\ fs0[q].kind = "symlink_file"

---------------------------------------------------------------------------
(* C9 *)

SourceIsEmpty == SourceIsDirectory(fs0) /\ NonDirectories(fs0) = {}
NothingCopied ==
    /\ DOMAIN fs \subseteq DOMAIN fs0 \cup Prefixes(output_dir)
    /\ \A p \in DOMAIN fs0 : fs[p] = fs0[p]
    /\ DOMAIN tasks = {}
    /\ Complete \notin log

\* C9 as stated: a run on a source directory without files ends with the
\* warning logged and the output root in place, with no bucket, no copy and
\* no completion line
C9_AsStated ==
    (SourceIsEmpty /\ pc = "done") =>
        /\ NoFilesWarning \in log
        /\ output_dir \in DOMAIN fs /\ fs[output_dir].kind \in {"dir", "symlink_dir"}
        /\ NothingCopied

\* C9 amended: on a source directory without files no bucket is ever created,
\* no copy is attempted and the completion line is never logged; and when the
\* output root could be created and the walk did not raise, the run ends with
\* the warning logged and the output root in place
C9_EmptySource ==
    SourceIsEmpty =>
        /\ NothingCopied
        /\ (pc = "done" /\ OutputError \notin log /\ ScanError \notin log) =>
              /\ NoFilesWarning \in log
              /\ output_dir \in DOMAIN fs /\ fs[output_dir].kind \in {"dir", "symlink_dir"}

\* a run on an empty source has ended with the warning, having created the
\* output root
C9_Witness ==
    /\ SourceIsEmpty /\ pc = "done"
    /\ NoFilesWarning \in log
    /\ output_dir \notin DOMAIN fs0 /\ output_dir \in DOMAIN fs

---------------------------------------------------------------------------
(* C10 *)

\* C10: every run ends: when every filesystem call returns and the coroutines
\* and the driver are scheduled, the driver reaches its end, whether the
\* validation failed, the scan failed or found nothing, or work items failed
C10_Terminates == <>(pc = "done")

\* a run has ended in which one item failed and one was copied
C10_Witness ==
    /\ pc = "done"
    /\ \E p, q \in DOMAIN tasks : tasks[p].pc = "copy_error" /\ tasks[q].pc = "copied"
    /\ fault

---------------------------------------------------------------------------
(* C7 *)

\* no two files that the scan lists have the same name and different contents
NoClash(f) == \A p, q \in NonDirectories(f) : p[Len(p)] = q[Len(q)] => f[p].data = f[q].data

---------------------------------------------------------------------------
(* C11 *)

Announced(p) == Line("INFO", "Copying", p) \in log
MkdirError(p) == Line("ERROR", "Failed to create target directory", Parent(Destination(p)))
Untouched(path) == path \in DOMAIN fs => (path \in DOMAIN fs0 /\ fs[path] = fs0[path])

\* C11: within one work item the copy and its "Copying" line come only after
\* the creation of the item's bucket directory has succeeded, the directory
\* being there and created by one call; an item whose directory creation
\* failed has the error logged, was never announced, made no copy attempt and
\* wrote no destination file
C11_MkdirThenCopy ==
    \A p \in DOMAIN tasks :
        /\ (Announced(p) \/ tasks[p].copies > 0 \/ tasks[p].pc \in {"copy_write", "copied", "copy_error"})
              => /\ tasks[p].mkdirs = 1
                 /\ Parent(Destination(p)) \in DOMAIN fs
                 /\ fs[Parent(Destination(p))].kind = "dir"
        /\ tasks[p].pc = "mkdir_error"
              => /\ MkdirError(p) \in log
                 /\ ~Announced(p)
                 /\ tasks[p].copies = 0
                 /\ ~Collides(p) => Untouched(Destination(p))

\* a run that ended with one item stopped at its directory and another copied
C11_Witness ==
    /\ pc = "done"
    /\ \E p, q \in DOMAIN tasks :
          /\ tasks[p].pc = "mkdir_error" /\ Destination(p) \notin DOMAIN fs
          /\ tasks[q].pc = "copied" /\ Announced(q)

---------------------------------------------------------------------------
(* C12 *)

Started(p) == tasks[p].pc # "mkdir" \/ tasks[p].mkdirs > 0 \/ tasks[p].copies > 0 \/ Announced(p)
NothingStarted ==
    /\ DOMAIN fs \subseteq DOMAIN fs0 \cup Prefixes(output_dir)
    /\ \A p \in DOMAIN fs0 : fs[p] = fs0[p]
    /\ \A p \in DOMAIN tasks : ~Started(p)

\* C12: the scan is eager: as long as the scan has not ended with its work
\* list (neither "Found files" nor "No files found" is logged) no bucket
\* directory is created and no copy has started, before and after every step;
\* and from a state where some item has started no step changes the work list
C12_EagerScan ==
    [][/\ ~Scanned => NothingStarted
       /\ ~Scanned' => NothingStarted'
       /\ (\E p \in DOMAIN tasks : Started(p)) => DOMAIN tasks' = DOMAIN tasks]_vars

\* the list was built over two turns of the walk and an item of it is copied
\* while another has not started
C12_Witness ==
    /\ pc = "gather"
    /\ \E p, q \in DOMAIN tasks :
          /\ Parent(p) # Parent(q)
          /\ tasks[p].pc = "copied"
          /\ ~Started(q)

---------------------------------------------------------------------------
(* C13 *)

---------------------------------------------------------------------------
(* C14 *)

\* C14: creating the same bucket from several items is harmless under every
\* interleaving: as long as no filesystem call has failed for a reason of the
\* environment, no item fails its directory creation and none is logged as
\* failed; and a run that completed without such a failure, over source files
\* with pairwise distinct destinations, has every one of them in its bucket
\* with its content
C14_BenignRace ==
    ~fault =>
        /\ \A p \in DOMAIN tasks : tasks[p].pc # "mkdir_error" /\ MkdirError(p) \notin log
        /\ (Complete \in log /\ \A p \in DOMAIN tasks : ~Collides(p)) =>
              \A p \in DOMAIN tasks :
                  /\ is_dir(fs, Parent(Destination(p)))
                  /\ Holds(fs, Destination(p), fs0[p].data)

\* two files of one bucket, with different names, were both copied in a run
\* where nothing failed
C14_Witness ==
    /\ ~fault
    /\ Complete \in log
    /\ \E p, q \in DOMAIN tasks :
          /\ p # q
          /\ Parent(Destination(p)) = Parent(Destination(q))
          /\ Destination(p) # Destination(q)
          /\ Holds(fs, Destination(p), fs0[p].data)
          /\ Holds(fs, Destination(q), fs0[q].data)

---------------------------------------------------------------------------
(* C15 *)

Ended(p) == tasks[p].pc \in {"copied", "mkdir_error", "copy_error", "cancelled"}

\* C15: nothing is retried: no step leaves an item with more than one
\* directory creation or more than one copy to its name, and an item that has
\* resolved, with a success or a failure, is left as it is by every later step
C15_NoRetry ==
    [][\A p \in DOMAIN tasks :
          /\ p \in DOMAIN tasks' => (tasks'[p].mkdirs <= 1 /\ tasks'[p].copies <= 1)
          /\ Ended(p) => (p \in DOMAIN tasks' /\ tasks'[p] = tasks[p])]_vars

\* a run completed in which an item failed at its one copy, after its one
\* directory creation, while another item was copied
C15_Witness ==
    /\ Complete \in log
    /\ \E p, q \in DOMAIN tasks :
          /\ tasks[p].pc = "copy_error" /\ tasks[p].mkdirs = 1 /\ tasks[p].copies = 1
          /\ tasks[q].pc = "copied" /\ tasks[q].mkdirs = 1 /\ tasks[q].copies = 1

---------------------------------------------------------------------------
(* C16 *)

InterruptWarning == Line("WARNING", "Operation interrupted by the user", <<>>)

\* C16: in a run where the user's interrupt arrived while the copies were
\* being awaited, the completion line is never logged, the interruption
\* warning is what the run has logged when it has ended, and the warning is
\* logged in no other run
C16_Interrupt ==
    /\ interrupted =>
          /\ Complete \notin log
          /\ pc = "done" => InterruptWarning \in log
    /\ InterruptWarning \in log => (interrupted /\ pc = "done")

\* an interrupted run has ended with one file copied and another item that
\* never started
C16_Witness ==
    /\ interrupted
    /\ pc = "done"
    /\ InterruptWarning \in log
    /\ \E p, q \in DOMAIN tasks : tasks[p].pc = "copied" /\ tasks[q].pc = "cancelled"

---------------------------------------------------------------------------
(* C17 *)

Validated == SourceIsDirectory(fs0) /\ SourceError \notin log /\ OutputError \notin log
ScanGaveFiles == ScanError \notin log /\ RegularFiles(fs0) \cup FileLinks(fs0) # {}

\* C17: the completion line is logged in exactly the runs where the validation
\* passed, the scan succeeded with at least one file, and every item resolved
\* with no interrupt: it is logged only at the end of such a run, and every
\* such run that has ended has logged it, whatever the number of items that
\* failed
C17_CompletionLine ==
    /\ Complete \in log =>
          /\ pc = "done"
          /\ Validated /\ ScanGaveFiles /\ ~interrupted
          /\ DOMAIN tasks # {}
          /\ \A p \in DOMAIN tasks : tasks[p].pc \in {"copied", "mkdir_error", "copy_error"}
    /\ (pc = "done" /\ Validated /\ ScanGaveFiles /\ ~interrupted) => Complete \in log

\* a run logged its completion although each of its items failed, one at its
\* directory and one at its copy
C17_Witness ==
    /\ Complete \in log
    /\ \A p \in DOMAIN tasks : tasks[p].pc \in {"mkdir_error", "copy_error"}
    /\ \E p, q \in DOMAIN tasks : tasks[p].pc = "mkdir_error" /\ tasks[q].pc = "copy_error"

---------------------------------------------------------------------------
(* C18 *)

UnderSource(p) == IsPrefix(source_dir, p)
Changed(p) == p \notin DOMAIN fs \/ p \notin DOMAIN fs0 \/ fs[p] # fs0[p]

---------------------------------------------------------------------------
(* C19 *)

HasExtension(n) == LastDotInside(n)
SameExtension(n, m) ==
    \/ ~HasExtension(n) /\ ~HasExtension(m)
    \/ /\ HasExtension(n) /\ HasExtension(m)
       /\ Uppercased(AfterLastDot(n)) = Uppercased(AfterLastDot(m))

\* C19: the sentinel bucket NO_EXTENSION receives a file if and only if the
\* file has no extension, so that no file with an extension is routed to it;
\* and two files are routed to the same bucket only when their extensions are
\* equal ignoring case or both have none
C19_Sentinel ==
    result # NoResult =>
        LET n == name(probe.source_path)
        IN  /\ result.target_dir = Append(probe.out, <<"NO_EXTENSION">>) <=> ~HasExtension(n)
            /\ \A m \in {k \in Names : Len(k) <= 3} :
                  target_dir(Append(source_dir, m), probe.out) = result.target_dir
                      => SameExtension(n, m)

====
